---- MODULE Spec2Model ----
(***************************************************************************)
(* Polygon manager: the create / list / delete pipeline of the REST API.   *)
(*                                                                         *)
(*   controller (polygon_controller.py)                                    *)
(*     -> request schema (polygon_schema.py, CreatePolygonRequest)         *)
(*     -> service (polygon_service.py, PolygonService)                     *)
(*     -> repository (repository.py) over the polygons table (polygon.py)  *)
(*                                                                         *)
(* Values.  A name is a sequence of characters.  A coordinate is a record  *)
(* [k, v]: k is the kind of the value and v its numeric value in tenths    *)
(* (15 is 1.5), 0 for the kinds that carry no number.  The kinds of JSON   *)
(* values are "int", "float", "null", "nan", "inf" and "ninf" (the         *)
(* literals NaN, Infinity and -Infinity).  A string is of the kind of what *)
(* the float type of the schemas makes of it:                              *)
(*   "numstr"   a finite number ("1.5", and also "1e3", " 1.5", "1_000"),  *)
(*   "nanstr"   NaN ("NaN", "nan", "NAN", signed or not),                  *)
(*   "infstr"   the positive infinity ("Infinity", "inf", "+inf", "INF"),  *)
(*   "ninfstr"  the negative infinity ("-Infinity", "-inf", "-infinity"),  *)
(*   "str"      a string it refuses ("word", "").                          *)
(* A point is a sequence of coordinates, a points value a record [k, l]    *)
(* with k "list" or "none"/"missing".                                      *)
(***************************************************************************)
EXTENDS Integers, Sequences, FiniteSets, TLC

VARIABLES
    store,      \* the polygons table: a set of rows
    created,    \* number of rows inserted so far (history, orders the inserts)
    pc,         \* per client: "idle", "delay", "service", "refresh",
                \* "closing", "done"
    req,        \* per client: the request being handled (or last handled)
    resp,       \* per client: the HTTP response of the last handled request
    answer,     \* per client: the response its request has come to, not yet
                \* sent: the session is closed first
    steps,      \* per client: what the request has executed so far (history)
    listings,   \* history: the listings returned since the last committed write
    removed,    \* history: the insert ordinals of the rows deleted so far
    gone,       \* history: the ids deleted since the last insert
    issued,     \* history: the ids the successful creates have returned
    polygon,    \* per client: the id of the entity it has saved and not yet
                \* refreshed (0: none)
    settings,   \* the Settings object the process was started with
    session,    \* per client: the database session of its request
    overlap,    \* per client (history): another request ran during this one
    rival       \* per client (history): a delete of the same id that ran
                \* beside this request's delete has been answered 200

vars == <<store, created, pc, req, resp, answer, steps, listings, removed, gone,
          issued, polygon, settings, session, overlap, rival>>

-----------------------------------------------------------------------------
(* Settings (config/settings.py) and the service's copies of them.         *)

\* The defaults of the Settings class.
max_coordinate == 1000000
max_name_length == 255
max_points_count == 10000
min_points_count == 3

Settings(max_coord, max_name, max_points, min_points) ==
    [max_coordinate |-> max_coord, max_name_length |-> max_name,
     max_points_count |-> max_points, min_points_count |-> min_points]

Defaults ==
    Settings(max_coordinate, max_name_length, max_points_count, min_points_count)

\* The class attributes of PolygonService, read from settings at import.
MAX_NAME_LENGTH == settings.max_name_length
MAX_POINTS_COUNT == settings.max_points_count
MAX_COORDINATE == settings.max_coordinate

HTTP_200_OK == 200
HTTP_201_CREATED == 201
HTTP_400_BAD_REQUEST == 400
HTTP_404_NOT_FOUND == 404
HTTP_422_UNPROCESSABLE_ENTITY == 422
HTTP_500_INTERNAL_SERVER_ERROR == 500

-----------------------------------------------------------------------------
(* Numbers and strings.                                                    *)

Tenths(n) == 10 * n

Abs(n) == IF n < 0 THEN -n ELSE n

Min(S) == CHOOSE x \in S : \A y \in S : x <= y

Max(S) == CHOOSE x \in S : \A y \in S : y <= x

Rep(ch, n) == [i \in 1..n |-> ch]

Int_(n) == [k |-> "int", v |-> Tenths(n)]
Float_(t) == [k |-> "float", v |-> t]
NumStr(t) == [k |-> "numstr", v |-> t]
Str_ == [k |-> "str", v |-> 0]
NaNStr == [k |-> "nanstr", v |-> 0]
InfStr == [k |-> "infstr", v |-> 0]
NegInfStr == [k |-> "ninfstr", v |-> 0]
Null == [k |-> "null", v |-> 0]
NaN == [k |-> "nan", v |-> 0]
Inf == [k |-> "inf", v |-> 0]
NegInf == [k |-> "ninf", v |-> 0]

\* isinstance(x, (int, float)): NaN and the infinities are floats.
IsNumber(c) == c.k \in {"int", "float", "nan", "inf", "ninf"}

IsFinite(c) == c.k \in {"int", "float"}

\* The characters str.isspace() holds for.  A character is written as itself,
\* or as its code point where a string of this language cannot hold it.
Whitespace ==
    {" ", "\t", "\n", "\r", "\f", "U+000B", "U+001C", "U+001D", "U+001E",
     "U+001F", "U+0085", "U+00A0", "U+1680", "U+2000", "U+2001", "U+2002",
     "U+2003", "U+2004", "U+2005", "U+2006", "U+2007", "U+2008", "U+2009",
     "U+200A", "U+2028", "U+2029", "U+202F", "U+205F", "U+3000"}

IsSpace(ch) == ch \in Whitespace

\* str.strip(): the string without its leading and trailing whitespace.
strip(s) ==
    LET solid == {i \in 1..Len(s) : ~IsSpace(s[i])}
    IN  IF solid = {} THEN <<>> ELSE SubSeq(s, Min(solid), Max(solid))

StrVal(s) == [k |-> "str", s |-> s]
NoneStr == [k |-> "none", s |-> <<>>]
MissingStr == [k |-> "missing", s |-> <<>>]

ListVal(l) == [k |-> "list", l |-> l]
NoneList == [k |-> "none", l |-> <<>>]
MissingList == [k |-> "missing", l |-> <<>>]

-----------------------------------------------------------------------------
(* PolygonService validation (services/polygon_service.py).                *)
(* An error is the message of the ValueError and the number formatted into *)
(* it (0 when the message has none).                                       *)

NoError == [msg |-> "", arg |-> 0]
Error(m, a) == [msg |-> m, arg |-> a]

\* The checks of one coordinate without the magnitude test.
Mut_CoordinateError(c) ==
    IF c.k = "null" THEN Error("Coordinate cannot be null", 0)
    ELSE IF ~IsNumber(c) THEN Error("Coordinate must be a number", 0)
    ELSE IF c.k = "nan" THEN Error("Coordinate cannot be NaN", 0)
    ELSE IF c.k \in {"inf", "ninf"} THEN Error("Coordinate cannot be Infinite", 0)
    ELSE NoError

\* The checks of one coordinate, lines 41-50.
CoordinateError(c) ==
    IF c.k = "null" THEN Error("Coordinate cannot be null", 0)
    ELSE IF ~IsNumber(c) THEN Error("Coordinate must be a number", 0)
    ELSE IF c.k = "nan" THEN Error("Coordinate cannot be NaN", 0)
    ELSE IF c.k \in {"inf", "ninf"} THEN Error("Coordinate cannot be Infinite", 0)
    ELSE IF Abs(c.v) > Tenths(MAX_COORDINATE)
         THEN Error("Coordinate value too large. Maximum allowed: ", MAX_COORDINATE)
    ELSE NoError

\* A point check that looks at the x coordinate only.
Mut_PointError(point) ==
    IF Len(point) # 2
    THEN Error("Each point must have exactly 2 coordinates [x, y]", 0)
    ELSE CoordinateError(point[1])

\* The body of "for point in points", lines 37-50: the first failure.
PointError(point) ==
    IF Len(point) # 2
    THEN Error("Each point must have exactly 2 coordinates [x, y]", 0)
    ELSE LET bad == {j \in 1..Len(point) : CoordinateError(point[j]) # NoError}
         IN  IF bad = {} THEN NoError ELSE CoordinateError(point[Min(bad)])

\* A validation that goes through all the points and keeps the last error.
Mut_validate_points(points) ==
    IF Len(points) > MAX_POINTS_COUNT
    THEN Error("Too many points. Maximum allowed: ", MAX_POINTS_COUNT)
    ELSE LET bad == {i \in 1..Len(points) : PointError(points[i]) # NoError}
         IN  IF bad = {} THEN NoError ELSE PointError(points[Max(bad)])

\* _validate_points, lines 33-50: the count, then the points in order.
PolygonService_validate_points(points) ==
    IF Len(points) > MAX_POINTS_COUNT
    THEN Error("Too many points. Maximum allowed: ", MAX_POINTS_COUNT)
    ELSE LET bad == {i \in 1..Len(points) : PointError(points[i]) # NoError}
         IN  IF bad = {} THEN NoError ELSE PointError(points[Min(bad)])

\* The validation with the name length compared by >=.
Mut_ServiceValidate(name, points) ==
    IF name.k # "str" \/ Len(name.s) = 0 \/ Len(strip(name.s)) = 0
    THEN Error("Polygon name is required", 0)
    ELSE IF Len(name.s) >= MAX_NAME_LENGTH
    THEN Error("Polygon name too long. Maximum allowed: ", MAX_NAME_LENGTH)
    ELSE IF points.k # "list" \/ Len(points.l) = 0
    THEN Error("Polygon points are required", 0)
    ELSE IF Len(points.l) < 3
    THEN Error("Polygon must have at least 3 points", 0)
    ELSE PolygonService_validate_points(points.l)

\* create_polygon lines 80-95: the ValueError raised, or NoError.
\* "not name" is None or the empty string, "not points" None or the empty list.
ServiceValidate(name, points) ==
    IF name.k # "str" \/ Len(name.s) = 0 \/ Len(strip(name.s)) = 0
    THEN Error("Polygon name is required", 0)
    ELSE IF Len(name.s) > MAX_NAME_LENGTH
    THEN Error("Polygon name too long. Maximum allowed: ", MAX_NAME_LENGTH)
    ELSE IF points.k # "list" \/ Len(points.l) = 0
    THEN Error("Polygon points are required", 0)
    ELSE IF Len(points.l) < 3
    THEN Error("Polygon must have at least 3 points", 0)
    ELSE PolygonService_validate_points(points.l)

-----------------------------------------------------------------------------
(* CreatePolygonRequest (schemas/polygon_schema.py): the request schema.   *)
(* FastAPI validates the parsed body against it before the handler runs;   *)
(* a body it rejects is answered 422 and the handler is never called.      *)

\* A value the float type of List[List[float]] takes: a number, or a string
\* it can read as one (the schema is not strict, so such a string is
\* converted).  The spellings of NaN and of the infinities, in any case and
\* signed or not ("nan", "inf", "-infinity"), are such strings.
FloatCoercible(c) ==
    c.k \in {"int", "float", "numstr", "nan", "inf", "ninf",
             "nanstr", "infstr", "ninfstr"}

ToFloat(c) ==
    CASE c.k \in {"int", "numstr"} -> Float_(c.v)
      [] c.k = "nanstr" -> NaN
      [] c.k = "infstr" -> Inf
      [] c.k = "ninfstr" -> NegInf
      [] OTHER -> c

ToFloats(l) == [i \in 1..Len(l) |-> [j \in 1..Len(l[i]) |-> ToFloat(l[i][j])]]

\* validate_name, lines 12-20.
CreatePolygonRequest_validate_name(v) ==
    IF Len(v) = 0 \/ Len(strip(v)) = 0
    THEN Error("Polygon name is required", 0)
    ELSE IF Len(v) > 255
    THEN Error("Polygon name too long. Maximum allowed: 255 characters", 0)
    ELSE NoError

\* A point check that takes every number, NaN and the infinities included.
Mut_SchemaPointError(point) ==
    IF Len(point) # 2
    THEN Error("Each point must have exactly 2 coordinates [x, y]", 0)
    ELSE LET bad == {j \in 1..Len(point) : ~IsNumber(point[j])}
         IN  IF bad = {} THEN NoError ELSE Error("Coordinate must be a number", 0)

\* The checks of one point inside validate_points, lines 31-39.
SchemaPointError(point) ==
    IF Len(point) # 2
    THEN Error("Each point must have exactly 2 coordinates [x, y]", 0)
    ELSE LET bad == {j \in 1..Len(point) :
                        \/ ~IsNumber(point[j])
                        \/ point[j].k \in {"nan", "inf", "ninf"}}
             c == point[Min(bad)]
         IN  IF bad = {} THEN NoError
             ELSE IF ~IsNumber(c) THEN Error("Coordinate must be a number", 0)
             ELSE IF c.k = "nan" THEN Error("Coordinate cannot be NaN", 0)
             ELSE Error("Coordinate cannot be Infinite", 0)

\* validate_points, lines 24-40, on the converted list.
CreatePolygonRequest_validate_points(v) ==
    IF Len(v) = 0 THEN Error("Points are required", 0)
    ELSE IF Len(v) < 3 THEN Error("Polygon must have at least 3 points", 0)
    ELSE LET bad == {i \in 1..Len(v) : SchemaPointError(v[i]) # NoError}
         IN  IF bad = {} THEN NoError ELSE SchemaPointError(v[Min(bad)])

\* A name field that checks the type only.
Mut_NameFieldError(name) ==
    IF name.k = "missing" THEN Error("Field required", 0)
    ELSE IF name.k # "str" THEN Error("Input should be a valid string", 0)
    ELSE NoError

\* name: str = Field(..., min_length=1, max_length=255) and its validator.
NameFieldError(name) ==
    IF name.k = "missing" THEN Error("Field required", 0)
    ELSE IF name.k # "str" THEN Error("Input should be a valid string", 0)
    ELSE IF Len(name.s) < 1 THEN Error("String should have at least 1 character", 0)
    ELSE IF Len(name.s) > 255 THEN Error("String should have at most 255 characters", 0)
    ELSE CreatePolygonRequest_validate_name(name.s)

\* points: List[List[float]] = Field(..., min_length=3) and its validator.
PointsFieldError(points) ==
    IF points.k = "missing" THEN Error("Field required", 0)
    ELSE IF points.k # "list" THEN Error("Input should be a valid list", 0)
    ELSE IF \E i \in 1..Len(points.l) : \E j \in 1..Len(points.l[i]) :
                ~FloatCoercible(points.l[i][j])
    THEN Error("Input should be a valid number", 0)
    ELSE IF Len(points.l) < 3 THEN Error("List should have at least 3 items", 0)
    ELSE CreatePolygonRequest_validate_points(ToFloats(points.l))

\* The model built from a body: every field is validated, the request is
\* rejected when any field fails.
CreatePolygonRequest(body) ==
    LET ne == NameFieldError(body.name)
        pe == PointsFieldError(body.points)
    IN  IF ne = NoError /\ pe = NoError
        THEN [ok |-> TRUE, name |-> body.name,
              points |-> ListVal(ToFloats(body.points.l))]
        ELSE [ok |-> FALSE, name |-> NoneStr, points |-> NoneList]

-----------------------------------------------------------------------------
(* JSONEncodedList (models/polygon.py): the points column is text.         *)
(* A number is written as a literal: sign, whole part, one fractional      *)
(* digit, and whether it has a fractional part at all ("1.5", "2.0", "3"). *)

Literal(kind, c) ==
    [lit |-> kind, neg |-> c.v < 0, whole |-> Abs(c.v) \div 10,
     frac |-> Abs(c.v) % 10, dot |-> c.k = "float"]

\* A float writer that drops the fractional digits.
Mut_FormatNumber(c) ==
    IF c.k \in {"int", "float"}
    THEN [Literal("num", c) EXCEPT !.frac = 0]
    ELSE Literal("null", Null)

\* json.dumps of one coordinate.  A string is written as a string literal:
\* "\"NaN\"", "\"Infinity\"" and "\"-Infinity\"" stand for the literals of the
\* strings of kind nanstr, infstr and ninfstr.
FormatNumber(c) ==
    CASE c.k \in {"int", "float"} -> Literal("num", c)
      [] c.k = "nan" -> Literal("NaN", NaN)
      [] c.k = "inf" -> Literal("Infinity", Inf)
      [] c.k = "ninf" -> Literal("-Infinity", NegInf)
      [] c.k = "null" -> Literal("null", Null)
      [] c.k = "nanstr" -> Literal("\"NaN\"", NaN)
      [] c.k = "infstr" -> Literal("\"Infinity\"", Inf)
      [] c.k = "ninfstr" -> Literal("\"-Infinity\"", NegInf)
      [] OTHER -> [Literal("string", c) EXCEPT !.dot = (c.k = "numstr")]

\* json.loads of one literal.
ParseNumber(x) ==
    LET v == IF x.neg THEN -(10 * x.whole + x.frac) ELSE 10 * x.whole + x.frac
    IN  CASE x.lit = "num" -> [k |-> IF x.dot THEN "float" ELSE "int", v |-> v]
          [] x.lit = "NaN" -> NaN
          [] x.lit = "Infinity" -> Inf
          [] x.lit = "-Infinity" -> NegInf
          [] x.lit = "null" -> Null
          [] x.lit = "\"NaN\"" -> NaNStr
          [] x.lit = "\"Infinity\"" -> InfStr
          [] x.lit = "\"-Infinity\"" -> NegInfStr
          [] OTHER -> [k |-> IF x.dot THEN "numstr" ELSE "str", v |-> v]

\* The text of a column: SQL NULL, or a string that is blank, is not JSON,
\* or is a JSON document (an array of arrays of literals, or something else).
NullText == [t |-> "null", jt |-> "", items |-> <<>>]

json_dumps(l) ==
    [t |-> "json", jt |-> "array",
     items |-> [i \in 1..Len(l) |-> [j \in 1..Len(l[i]) |-> FormatNumber(l[i][j])]]]

json_loads(text) ==
    [i \in 1..Len(text.items) |->
        [j \in 1..Len(text.items[i]) |-> ParseNumber(text.items[i][j])]]

\* process_bind_param, lines 16-20.
process_bind_param(value) ==
    IF value.k # "list" THEN NullText ELSE json_dumps(value.l)

\* Texts that no bind wrote: an empty or all-whitespace string, a string that
\* is not JSON, a JSON document that is not an array, and arrays whose
\* elements are not pairs of numbers: numbers instead of points ("flat"), a
\* point of three numbers, a point of strings.
BlankText == [t |-> "blank", jt |-> "", items |-> <<>>]
GarbageText == [t |-> "garbage", jt |-> "", items |-> <<>>]
ObjectText == [t |-> "json", jt |-> "object", items |-> <<>>]
FlatText ==
    [t |-> "json", jt |-> "flat",
     items |-> <<Literal("num", [k |-> "int", v |-> 10]),
                 Literal("num", [k |-> "float", v |-> 25])>>]
TripleText ==
    [t |-> "json", jt |-> "array",
     items |-> << <<Literal("num", [k |-> "int", v |-> 10]),
                    Literal("num", [k |-> "int", v |-> 20]),
                    Literal("num", [k |-> "float", v |-> 35])>> >>]
WordsText ==
    [t |-> "json", jt |-> "array",
     items |-> << <<Literal("string", Str_), Literal("string", Str_)>> >>]
NaNText ==
    [t |-> "json", jt |-> "array",
     items |-> << <<Literal("NaN", NaN), Literal("num", [k |-> "float", v |-> 0])>>,
                  <<Literal("num", [k |-> "float", v |-> 0]), Literal("Infinity", Inf)>>,
                  <<Literal("-Infinity", NegInf), Literal("\"NaN\"", NaN)>> >>]

\* process_result_value, lines 22-37: None for NULL and for a blank string,
\* [] when json.loads raises or gives something that is not a list, else the
\* list (of points, or "scalars" when its elements are not lists).
process_result_value(text) ==
    IF text.t \in {"null", "blank"} THEN NoneList
    ELSE IF text.t # "json" THEN ListVal(<<>>)
    ELSE IF text.jt \notin {"array", "flat"} THEN ListVal(<<>>)
    ELSE IF text.jt = "flat"
    THEN [k |-> "scalars", l |-> [i \in 1..Len(text.items) |-> ParseNumber(text.items[i])]]
    ELSE ListVal(json_loads(text))

-----------------------------------------------------------------------------
(* The polygons table (models/polygon.py) and PolygonRepository.           *)
(* A row is [id, name, points] plus two history fields that are not        *)
(* columns: seq, the ordinal of the insert that wrote the row, and sent,   *)
(* the points as they were submitted.                                      *)

Ids(rows) == {r.id : r \in rows}

\* An id policy that counts the rows.
Mut_NextId(rows) == Cardinality(rows) + 1

\* id = Column(Integer, primary_key=True, autoincrement=True) on SQLite: the
\* column is the rowid, and an insert without an id takes the largest rowid
\* in the table plus one (1 for an empty table).
NextId(rows) == IF rows = {} THEN 1 ELSE Max(Ids(rows)) + 1

\* The entity loaded from a row.
Polygon(row) ==
    [id |-> row.id, name |-> row.name, points |-> process_result_value(row.points)]

\* A scan in descending rowid order.
RECURSIVE Mut_Scan(_)
Mut_Scan(rows) ==
    IF rows = {} THEN <<>>
    ELSE LET r == CHOOSE x \in rows : \A y \in rows : x.id >= y.id
         IN  <<r>> \o Mut_Scan(rows \ {r})

\* The rows in the order of a table scan: ascending rowid.
RECURSIVE Scan(_)
Scan(rows) ==
    IF rows = {} THEN <<>>
    ELSE LET r == CHOOSE x \in rows : \A y \in rows : x.id <= y.id
         IN  <<r>> \o Scan(rows \ {r})

\* find_all, lines 10-13.
PolygonRepository_find_all(rows) ==
    LET scan == Scan(rows) IN [i \in 1..Len(scan) |-> Polygon(scan[i])]

\* A save that takes a polygon of a name already stored for that polygon.
Mut_NewRow(rows, name, points, seq, sent) ==
    [id |-> IF \E r \in rows : r.name = name.s
            THEN (CHOOSE r \in rows : r.name = name.s).id
            ELSE NextId(rows),
     name |-> name.s, points |-> process_bind_param(points),
     seq |-> seq, sent |-> sent]

\* The row that save (lines 20-26) inserts for a new entity.
NewRow(rows, name, points, seq, sent) ==
    [id |-> NextId(rows), name |-> name.s, points |-> process_bind_param(points),
     seq |-> seq, sent |-> sent]

\* delete_by_id, lines 28-38: the rows left; the count is what was removed.
Mut_RowsAfterDelete(rows, polygon_id) == rows

RowsAfterDelete(rows, polygon_id) == {r \in rows : r.id # polygon_id}

\* A count that is the success flag of the statement, not its row count.
Mut_DeletedCount(rows, polygon_id) == 1

DeletedCount(rows, polygon_id) == Cardinality({r \in rows : r.id = polygon_id})

-----------------------------------------------------------------------------
(* PolygonResponse (schemas/polygon_schema.py): the response model.        *)

PolygonResponse(p) ==
    IF p.points.k = "list"
       /\ \A i \in 1..Len(p.points.l) : \A j \in 1..Len(p.points.l[i]) :
              FloatCoercible(p.points.l[i][j])
    THEN [ok |-> TRUE, id |-> p.id, name |-> p.name, points |-> ToFloats(p.points.l)]
    ELSE [ok |-> FALSE, id |-> p.id, name |-> p.name, points |-> <<>>]

-----------------------------------------------------------------------------
(* Inputs: the request bodies, ids and clients the model draws from.       *)

MaxCreates == 3
MaxConcurrentCreates == 2
MaxFaultCreates == 2

Clients == {"c1", "c2"}
Serial == {"c1"}

DeleteIds == 1..(MaxCreates + 1)
ConcurrentDeleteIds == 1..(MaxConcurrentCreates + 1)

nA == <<"a">>
nPad == <<" ", "b", " ">>
nMax == Rep("a", max_name_length)
nLong == Rep("a", max_name_length + 1)
nPadMax == <<" ">> \o Rep("a", max_name_length)
nBlank == <<" ", " ">>
nEmpty == <<>>
nTab == <<"\t">>
nLines == <<"\n", "U+00A0", "\r">>
nTabbed == <<"\t", "a", "\n">>

pOrigin == <<Int_(0), Int_(0)>>
pUnit == <<Int_(1), Float_(10)>>
pTri == << <<Float_(15), Float_(27)>>, pOrigin, <<Float_(15), Float_(27)>> >>
pEdge == << <<Int_(max_coordinate), Float_(-Tenths(max_coordinate))>>,
            <<Float_(-5), Int_(-7)>>, pOrigin, pUnit >>
pNumStr == << pOrigin, <<NumStr(15), Int_(2)>>, pUnit >>
pFull == [i \in 1..max_points_count |-> IF i % 2 = 0 THEN pUnit ELSE pOrigin]
pMany == [i \in 1..(max_points_count + 1) |-> pOrigin]
pManyOver == [i \in 1..(max_points_count + 1) |->
                 IF i = 1 THEN <<Int_(max_coordinate + 1), Int_(0)>> ELSE pOrigin]
pOver == << pOrigin, <<Float_(Tenths(max_coordinate) + 1), Int_(0)>>, pUnit >>
pUnder == << pOrigin, pUnit, <<Int_(0), Int_(-(max_coordinate + 1))>> >>
pTwo == << pOrigin, pUnit >>
pTwoOver == << pOrigin, <<Int_(0), Int_(max_coordinate + 1)>> >>
pEmpty == << >>
pArity1 == << pOrigin, <<Int_(1)>>, pUnit >>
pArity3 == << pOrigin, pUnit, <<Int_(1), Int_(2), Int_(3)>> >>
pNull == << pOrigin, <<Null, Int_(0)>>, pUnit >>
pStr == << pOrigin, pUnit, <<Int_(0), Str_>> >>
pNaN == << <<NaN, Int_(0)>>, pOrigin, pUnit >>
pInf == << pOrigin, <<Int_(0), Inf>>, <<NegInf, Int_(0)>> >>
pNaNStr == << pOrigin, <<NaNStr, Int_(0)>>, <<Int_(5), Int_(10)>> >>
pInfStr == << pOrigin, <<InfStr, Int_(0)>>, <<Int_(0), NegInfStr>> >>
pTwoNaNStr == << pOrigin, <<NaNStr, Int_(0)>> >>
pTwoNaN == << pOrigin, <<NaN, Int_(0)>> >>
pNaNWord == << <<NaN, Str_>>, pOrigin, pUnit >>
pNaNInf == << <<NaN, InfStr>>, pOrigin, pUnit >>

Body(n, p) == [name |-> n, points |-> p]
NoBody == Body(MissingStr, MissingList)

ValidBodies ==
    { Body(StrVal(nA), ListVal(pTri)),
      Body(StrVal(nMax), ListVal(pEdge)),
      Body(StrVal(nPad), ListVal(pNumStr)),
      Body(StrVal(nTabbed), ListVal(pTri)) }

RejectedBodies ==
    { Body(StrVal(nPadMax), ListVal(pTri)),
      Body(StrVal(nLong), ListVal(pTri)),
      Body(StrVal(nBlank), ListVal(pTri)),
      Body(StrVal(nEmpty), ListVal(pEdge)),
      Body(MissingStr, ListVal(pTri)),
      Body(StrVal(nA), MissingList),
      Body(StrVal(nA), ListVal(pEmpty)),
      Body(StrVal(nA), ListVal(pTwo)),
      Body(StrVal(nA), ListVal(pTwoOver)),
      Body(StrVal(nA), ListVal(pArity1)),
      Body(StrVal(nPad), ListVal(pArity3)),
      Body(StrVal(nA), ListVal(pNull)),
      Body(StrVal(nA), ListVal(pStr)),
      Body(StrVal(nA), ListVal(pNaN)),
      Body(StrVal(nA), ListVal(pInf)),
      Body(StrVal(nA), ListVal(pOver)),
      Body(StrVal(nPad), ListVal(pUnder)),
      Body(StrVal(nBlank), ListVal(pOver)),
      Body(StrVal(nTab), ListVal(pTri)),
      Body(StrVal(nLines), ListVal(pEdge)),
      Body(StrVal(nA), ListVal(pNaNStr)),
      Body(StrVal(nA), ListVal(pInfStr)),
      Body(StrVal(nA), ListVal(pTwoNaNStr)),
      Body(StrVal(nA), ListVal(pTwoNaN)),
      Body(StrVal(nA), ListVal(pNaNWord)),
      Body(MissingStr, ListVal(pNaNWord)),
      Body(StrVal(nA), ListVal(pNaNInf)),
      Body(StrVal(nBlank), ListVal(pNaN)) }

Bodies == ValidBodies \cup RejectedBodies

\* Bodies at the limit of the point count (the most points allowed, and one
\* more), and a padded name with plain numbers.
LargeBodies ==
    { Body(StrVal(nPad), ListVal(pTri)),
      Body(StrVal(nA), ListVal(pFull)),
      Body(StrVal(nA), ListVal(pMany)),
      Body(StrVal(nPad), ListVal(pManyOver)),
      Body(StrVal(nLong), ListVal(pMany)) }

\* The bodies of the requests that run at the same time.
ConcurrentBodies ==
    { Body(StrVal(nA), ListVal(pTri)),
      Body(StrVal(nA), ListVal(pEdge)),
      Body(StrVal(nA), ListVal(pOver)),
      Body(StrVal(nBlank), ListVal(pTri)) }

\* The request model of each body the model submits, built once.
Parsed ==
    [b \in Bodies \cup LargeBodies \cup ConcurrentBodies |-> CreatePolygonRequest(b)]

-----------------------------------------------------------------------------
(* Requests and responses.                                                 *)

Request(op, body, id) == [op |-> op, body |-> body, id |-> id]
NoRequest == Request("none", NoBody, 0)

Response(status, detail, polys, id) ==
    [status |-> status, detail |-> detail, polys |-> polys, id |-> id]
NoResponse == Response(0, NoError, <<>>, 0)

\* The JSON of a PolygonResponse.
Item(out) == [id |-> out.id, name |-> out.name, points |-> out.points]

\* The body of a response is written with json.dumps(allow_nan=False), which
\* raises on NaN and on the infinities.
Renders(points) ==
    \A i \in 1..Len(points) : \A j \in 1..Len(points[i]) :
        points[i][j].k \notin {"nan", "inf", "ninf"}

\* response_model=List[PolygonResponse]: the body of a listing, or a
\* response validation failure when an entity does not fit the model, or a
\* failure to write the body.
ListBody(polygons) ==
    LET outs == [i \in 1..Len(polygons) |-> PolygonResponse(polygons[i])]
    IN  [ok |-> \A i \in 1..Len(outs) : outs[i].ok /\ Renders(outs[i].points),
         items |-> [i \in 1..Len(outs) |-> Item(outs[i])]]

\* The answer to an exception that no handler takes.
InternalServerError ==
    Response(HTTP_500_INTERNAL_SERVER_ERROR, Error("Internal Server Error", 0), <<>>, 0)

\* The answer to a body the request schema rejects: 422 with the errors, each
\* of which quotes its input: the whole body for a missing field, the name
\* for an error of the name, the coordinate for a value that is not a number,
\* and the points list for an error of its length or of its validator.  The
\* answer is written as JSON as well, and a NaN or an infinity quoted in it
\* makes that fail.
RequestValidationError(body) ==
    LET pe == PointsFieldError(body.points)
        whole == body.name.k = "missing" \/ body.points.k = "missing"
        list == pe \notin {NoError, Error("Input should be a valid number", 0)}
    IN  IF body.points.k = "list" /\ ~Renders(body.points.l) /\ (whole \/ list)
        THEN InternalServerError
        ELSE Response(HTTP_422_UNPROCESSABLE_ENTITY,
                      Error("Unprocessable Entity", 0), <<>>, 0)

\* No listing since the last write.  Otherwise: the first listing since then,
\* the latest one, and whether there has been more than one.
NoListings == [valid |-> FALSE, first |-> <<>>, latest |-> <<>>, again |-> FALSE]

\* get_db (database/database.py): a request's session.  SessionLocal() makes
\* a new Session object: its identity is one no session still open has.
NoSession == [id |-> 0, open |-> FALSE, closes |-> 0]

SessionLocal ==
    Min({n \in 1..(Cardinality(Clients) + 1) :
            \A d \in Clients : session[d].open => session[d].id # n})

\* A get_db that closes the session only when the request succeeded.
Mut_get_db_close(db, status) ==
    IF status >= 400 THEN db ELSE [db EXCEPT !.open = FALSE, !.closes = @ + 1]

\* The finally clause of get_db: db.close(), whatever the outcome.
get_db_close(db, status) == [db EXCEPT !.open = FALSE, !.closes = @ + 1]

\* Depends(get_db) up to its yield, for the request of client c.
get_db(c) == [session EXCEPT ![c] = [id |-> SessionLocal, open |-> TRUE, closes |-> 0]]

\* The request of client c ends with this status: get_db resumes and closes.
Release(c, status) == [session EXCEPT ![c] = get_db_close(@, status)]

\* Everything but the settings, as the process starts on an empty table.
Started ==
    /\ store = {}
    /\ created = 0
    /\ pc = [c \in Clients |-> "idle"]
    /\ req = [c \in Clients |-> NoRequest]
    /\ resp = [c \in Clients |-> NoResponse]
    /\ answer = [c \in Clients |-> NoResponse]
    /\ steps = [c \in Clients |-> <<>>]
    /\ listings = NoListings
    /\ removed = {}
    /\ gone = {}
    /\ issued = {}
    /\ polygon = [c \in Clients |-> 0]
    /\ session = [c \in Clients |-> NoSession]
    /\ overlap = [c \in Clients |-> FALSE]
    /\ rival = [c \in Clients |-> FALSE]

Init == Started /\ settings = Defaults

Ready(c) == pc[c] \in {"idle", "done"}

InFlight(c) == pc[c] \in {"delay", "service", "refresh", "closing"}

\* The creates that have arrived and not yet reached their commit: with the
\* rows inserted so far, the inserts there can have been once they have run.
InFlightCreates ==
    Cardinality({c \in Clients :
                    pc[c] \in {"delay", "service"} /\ req[c].op = "create"})

\* The requests that run while another does, once the request of c arrives.
Arrive(c) ==
    [d \in Clients |->
        IF d = c THEN \E e \in Clients \ {c} : InFlight(e)
        ELSE overlap[d] \/ InFlight(d)]

\* GET /api/polygons arrives: the handler is entered.
ReceiveList(c) ==
    /\ Ready(c)
    /\ pc' = [pc EXCEPT ![c] = "delay"]
    /\ req' = [req EXCEPT ![c] = Request("list", NoBody, 0)]
    /\ resp' = [resp EXCEPT ![c] = NoResponse]
    /\ steps' = [steps EXCEPT ![c] = <<>>]
    /\ session' = get_db(c)
    /\ overlap' = Arrive(c)
    /\ rival' = [rival EXCEPT ![c] = FALSE]
    /\ UNCHANGED <<store, created, answer, listings, removed, gone, issued,
                   polygon, settings>>

\* DELETE /api/polygons/{id} arrives with an integer id.
ReceiveDelete(c, id) ==
    /\ Ready(c)
    /\ pc' = [pc EXCEPT ![c] = "delay"]
    /\ req' = [req EXCEPT ![c] = Request("delete", NoBody, id)]
    /\ resp' = [resp EXCEPT ![c] = NoResponse]
    /\ steps' = [steps EXCEPT ![c] = <<>>]
    /\ session' = get_db(c)
    /\ overlap' = Arrive(c)
    /\ rival' = [rival EXCEPT ![c] = FALSE]
    /\ UNCHANGED <<store, created, answer, listings, removed, gone, issued,
                   polygon, settings>>

\* POST /api/polygons that enters the service at once, without the delay.
Mut_ReceiveCreate(c, body) ==
    /\ Ready(c)
    /\ created + InFlightCreates < MaxCreates
    /\ req' = [req EXCEPT ![c] = Request("create", body, 0)]
    /\ steps' = [steps EXCEPT ![c] = <<"schema">>]
    /\ overlap' = Arrive(c)
    /\ rival' = [rival EXCEPT ![c] = FALSE]
    /\ resp' = [resp EXCEPT ![c] = NoResponse]
    /\ session' = get_db(c)
    /\ IF Parsed[body].ok
       THEN /\ pc' = [pc EXCEPT ![c] = "service"]
            /\ UNCHANGED answer
       ELSE /\ pc' = [pc EXCEPT ![c] = "closing"]
            /\ answer' = [answer EXCEPT ![c] = RequestValidationError(body)]
    /\ UNCHANGED <<store, created, listings, removed, gone, issued, polygon, settings>>

\* POST /api/polygons arrives: the dependencies are solved (the session is
\* opened) and the body is validated against the schema; a rejected body
\* comes to its 422 without the handler being called, its session still to
\* be closed.
ReceiveCreate(c, body) ==
    /\ Ready(c)
    /\ created + InFlightCreates < MaxCreates
    /\ req' = [req EXCEPT ![c] = Request("create", body, 0)]
    /\ steps' = [steps EXCEPT ![c] = <<"schema">>]
    /\ overlap' = Arrive(c)
    /\ rival' = [rival EXCEPT ![c] = FALSE]
    /\ resp' = [resp EXCEPT ![c] = NoResponse]
    /\ session' = get_db(c)
    /\ IF Parsed[body].ok
       THEN /\ pc' = [pc EXCEPT ![c] = "delay"]
            /\ UNCHANGED answer
       ELSE /\ pc' = [pc EXCEPT ![c] = "closing"]
            /\ answer' = [answer EXCEPT ![c] = RequestValidationError(body)]
    /\ UNCHANGED <<store, created, listings, removed, gone, issued, polygon, settings>>

\* PolygonService.create_polygon called with these arguments as they are, by
\* a caller that holds a session (no request schema in front of it).  Its
\* ValueError is recorded as the 400 that carries its message, its return as
\* the 201 that carries the polygon.
CallCreate(c, name, points) ==
    /\ Ready(c)
    /\ created + InFlightCreates < MaxCreates
    /\ req' = [req EXCEPT ![c] = Request("create", Body(name, points), 0)]
    /\ steps' = [steps EXCEPT ![c] = <<"call">>]
    /\ overlap' = Arrive(c)
    /\ rival' = [rival EXCEPT ![c] = FALSE]
    /\ pc' = [pc EXCEPT ![c] = "delay"]
    /\ resp' = [resp EXCEPT ![c] = NoResponse]
    /\ session' = get_db(c)
    /\ UNCHANGED <<store, created, answer, listings, removed, gone, issued,
                   polygon, settings>>

\* The name and points the service is called with: the fields of the request
\* model, or the caller's own arguments.
Arguments(c) ==
    IF steps[c][1] = "schema"
    THEN Parsed[req[c].body]
    ELSE [ok |-> TRUE, name |-> req[c].body.name, points |-> req[c].body.points]

\* PolygonService._add_delay: the first statement of every service method.
add_delay(c) ==
    /\ pc[c] = "delay"
    /\ pc' = [pc EXCEPT ![c] = "service"]
    /\ steps' = [steps EXCEPT ![c] = Append(@, "delay")]
    /\ UNCHANGED <<store, created, req, resp, answer, listings, removed, gone,
                   issued, polygon, settings, session, overlap, rival>>

\* The exception a failing store raises (the table cannot be reached).
StoreError == Error("(sqlite3.OperationalError) database is locked", 0)

\* The exception of db.refresh for an entity whose row is not there.
RefreshError == Error("Could not refresh instance", 0)

\* The except clauses of the three handlers: the response made of an
\* exception that is not a ValueError or an HTTPException.
get_all_polygons_except(e) ==
    Response(HTTP_500_INTERNAL_SERVER_ERROR, Error("Failed to fetch polygons", 0), <<>>, 0)

create_polygon_except(e) ==
    Response(HTTP_500_INTERNAL_SERVER_ERROR, Error("Failed to create polygon", 0), <<>>, 0)

delete_polygon_except(e) ==
    Response(HTTP_500_INTERNAL_SERVER_ERROR, Error("Failed to delete polygon", 0), <<>>, 0)

\* The answer to a response that does not fit the response model: the
\* exception is raised after the handler has returned, outside its try.
ResponseValidationError ==
    Response(HTTP_500_INTERNAL_SERVER_ERROR, Error("Internal Server Error", 0), <<>>, 0)

\* A listing that drains the table it has read.
Mut_get_all_polygons(c, fault) ==
    /\ pc[c] = "service"
    /\ req[c].op = "list"
    /\ LET body == ListBody(PolygonRepository_find_all(store))
       IN  /\ answer' = [answer EXCEPT ![c] = Response(HTTP_200_OK, NoError, body.items, 0)]
           /\ listings' =
                  [valid |-> TRUE,
                   first |-> IF listings.valid THEN listings.first ELSE body.items,
                   latest |-> body.items,
                   again |-> listings.valid]
    /\ store' = {}
    /\ pc' = [pc EXCEPT ![c] = "closing"]
    /\ steps' = [steps EXCEPT ![c] = Append(@, "find_all")]
    /\ UNCHANGED <<created, req, resp, removed, gone, issued, polygon, settings,
                   session, overlap, rival>>

\* get_all_polygons after the delay: find_all, then the response.  fault:
\* the store raises.
get_all_polygons(c, fault) ==
    /\ pc[c] = "service"
    /\ req[c].op = "list"
    /\ LET body == ListBody(PolygonRepository_find_all(store))
       IN  /\ answer' = [answer EXCEPT ![c] =
                  IF fault THEN get_all_polygons_except(StoreError)
                  ELSE IF body.ok
                  THEN Response(HTTP_200_OK, NoError, body.items, 0)
                  ELSE ResponseValidationError]
           /\ listings' =
                  IF fault \/ ~body.ok THEN listings
                  ELSE [valid |-> TRUE,
                        first |-> IF listings.valid THEN listings.first ELSE body.items,
                        latest |-> body.items,
                        again |-> listings.valid]
    /\ pc' = [pc EXCEPT ![c] = "closing"]
    /\ steps' = [steps EXCEPT ![c] = Append(@, "find_all")]
    /\ UNCHANGED <<store, created, req, resp, removed, gone, issued, polygon,
                   settings, session, overlap, rival>>

\* A create that saves the polygon before it validates it.
Mut_create_polygon(c, fault) ==
    /\ pc[c] = "service"
    /\ req[c].op = "create"
    /\ LET request == Arguments(c)
           err == ServiceValidate(request.name, request.points)
           row == NewRow(store, request.name, request.points, created + 1,
                         req[c].body.points.l)
       IN  /\ store' = store \cup {row}
           /\ created' = created + 1
           /\ listings' = NoListings
           /\ gone' = {}
           /\ steps' = [steps EXCEPT ![c] = @ \o <<"save", "validate">>]
           /\ IF err # NoError
              THEN /\ answer' = [answer EXCEPT ![c] =
                          Response(HTTP_400_BAD_REQUEST, err, <<>>, 0)]
                   /\ pc' = [pc EXCEPT ![c] = "closing"]
                   /\ UNCHANGED polygon
              ELSE /\ polygon' = [polygon EXCEPT ![c] = row.id]
                   /\ pc' = [pc EXCEPT ![c] = "refresh"]
                   /\ UNCHANGED answer
    /\ UNCHANGED <<req, resp, removed, issued, settings, session, overlap, rival>>

\* create_polygon after the delay, up to the commit of save: the service's
\* validation and the controller's mapping of a ValueError to 400, then
\* db.add and db.commit, which insert the row in a transaction of their own.
\* fault: the commit raises, and nothing is stored.
create_polygon(c, fault) ==
    /\ pc[c] = "service"
    /\ req[c].op = "create"
    /\ LET request == Arguments(c)
           err == ServiceValidate(request.name, request.points)
           row == NewRow(store, request.name, request.points, created + 1,
                         req[c].body.points.l)
       IN  IF err # NoError
           THEN /\ answer' = [answer EXCEPT ![c] =
                       Response(HTTP_400_BAD_REQUEST, err, <<>>, 0)]
                /\ steps' = [steps EXCEPT ![c] = Append(@, "validate")]
                /\ pc' = [pc EXCEPT ![c] = "closing"]
                /\ UNCHANGED <<store, created, listings, gone, polygon>>
           ELSE IF fault
           THEN /\ answer' = [answer EXCEPT ![c] = create_polygon_except(StoreError)]
                /\ steps' = [steps EXCEPT ![c] = @ \o <<"validate", "save">>]
                /\ pc' = [pc EXCEPT ![c] = "closing"]
                /\ UNCHANGED <<store, created, listings, gone, polygon>>
           ELSE /\ store' = store \cup {row}
                /\ created' = created + 1
                /\ listings' = NoListings
                /\ gone' = {}
                /\ steps' = [steps EXCEPT ![c] = @ \o <<"validate", "save">>]
                /\ polygon' = [polygon EXCEPT ![c] = row.id]
                /\ pc' = [pc EXCEPT ![c] = "refresh"]
                /\ UNCHANGED answer
    /\ UNCHANGED <<req, resp, removed, issued, settings, session, overlap, rival>>

\* The rest of save and of the handler: db.refresh reads the row of the
\* entity's id again, in a statement of its own after the commit, and the
\* entity as read is returned and answered 201.  A row that is no longer
\* there makes refresh raise (InvalidRequestError), and the row another
\* request has stored under the id since is read as this one's.  fault: the
\* store raises at the refresh; the row committed stays.
refresh(c, fault) ==
    /\ pc[c] = "refresh"
    /\ LET rows == {r \in store : r.id = polygon[c]}
           out == PolygonResponse(Polygon(CHOOSE r \in rows : TRUE))
       IN  answer' = [answer EXCEPT ![c] =
                  IF fault THEN create_polygon_except(StoreError)
                  ELSE IF rows = {} THEN create_polygon_except(RefreshError)
                  ELSE IF out.ok /\ Renders(out.points)
                  THEN Response(HTTP_201_CREATED, NoError, <<Item(out)>>, 0)
                  ELSE ResponseValidationError]
    /\ polygon' = [polygon EXCEPT ![c] = 0]
    /\ steps' = [steps EXCEPT ![c] = Append(@, "refresh")]
    /\ pc' = [pc EXCEPT ![c] = "closing"]
    /\ UNCHANGED <<store, created, req, resp, listings, removed, gone, issued,
                   settings, session, overlap, rival>>

\* delete_polygon after the delay: delete_by_id, then 200 or 404.  fault: the
\* store raises.
delete_polygon(c, fault) ==
    /\ pc[c] = "service"
    /\ req[c].op = "delete"
    /\ LET id == req[c].id
           deleted_count == IF fault THEN 0 ELSE DeletedCount(store, id)
           deleted == deleted_count > 0
       IN  /\ store' = IF fault THEN store ELSE RowsAfterDelete(store, id)
           /\ answer' = [answer EXCEPT ![c] =
                  IF fault THEN delete_polygon_except(StoreError)
                  ELSE IF deleted
                  THEN Response(HTTP_200_OK,
                                Error("Polygon deleted successfully", 0), <<>>, id)
                  ELSE Response(HTTP_404_NOT_FOUND,
                                Error("Polygon not found", 0), <<>>, 0)]
           /\ listings' = IF deleted THEN NoListings ELSE listings
           /\ removed' = IF fault THEN removed
                         ELSE removed \cup {r.seq : r \in {x \in store : x.id = id}}
           /\ gone' = IF deleted THEN gone \cup {id} ELSE gone
           /\ rival' = [d \in Clients |->
                  IF deleted /\ d # c /\ pc[d] \in {"delay", "service"}
                     /\ req[d].op = "delete" /\ req[d].id = id
                  THEN TRUE ELSE rival[d]]
    /\ pc' = [pc EXCEPT ![c] = "closing"]
    /\ steps' = [steps EXCEPT ![c] = Append(@, "delete_by_id")]
    /\ UNCHANGED <<created, req, resp, issued, polygon, settings, session, overlap>>

\* The end of a request: the handler has returned or raised (or the schema
\* has rejected the body), and the finally clause of get_db runs, as a job of
\* its own; then the response is sent.
close(c) ==
    /\ pc[c] = "closing"
    /\ session' = Release(c, answer[c].status)
    /\ resp' = [resp EXCEPT ![c] = answer[c]]
    /\ answer' = [answer EXCEPT ![c] = NoResponse]
    /\ issued' = IF req[c].op = "create" /\ answer[c].status = HTTP_201_CREATED
                  THEN issued \cup {answer[c].polys[1].id} ELSE issued
    /\ pc' = [pc EXCEPT ![c] = "done"]
    /\ UNCHANGED <<store, created, req, steps, listings, removed, gone, polygon,
                   settings, overlap, rival>>

DoReceiveList == \E c \in Serial : ReceiveList(c)
DoReceiveDelete == \E c \in Serial : \E id \in DeleteIds : ReceiveDelete(c, id)
DoReceiveCreate == \E c \in Serial : \E body \in Bodies : ReceiveCreate(c, body)
DoDelay == \E c \in Serial : add_delay(c)
DoList == \E c \in Serial : get_all_polygons(c, FALSE)
DoCreate == \E c \in Serial : create_polygon(c, FALSE)
DoRefresh == \E c \in Serial : refresh(c, FALSE)
DoDelete == \E c \in Serial : delete_polygon(c, FALSE)
DoClose == \E c \in Serial : close(c)

Next ==
    \/ DoReceiveList
    \/ DoReceiveDelete
    \/ DoReceiveCreate
    \/ DoDelay
    \/ DoList
    \/ DoCreate
    \/ DoRefresh
    \/ DoDelete
    \/ DoClose

Spec == Init /\ [][Next]_vars

\* The same requests against a table of at most one row, with the bodies at
\* the limit of the point count among the inputs.
DoReceiveCreateAtLimits ==
    \E c \in Serial : \E body \in Bodies \cup LargeBodies :
        store = {} /\ ReceiveCreate(c, body)

NextLimits ==
    \/ DoReceiveList
    \/ DoReceiveDelete
    \/ DoReceiveCreateAtLimits
    \/ DoDelay
    \/ DoList
    \/ DoCreate
    \/ DoRefresh
    \/ DoDelete
    \/ DoClose

SpecLimits == Init /\ [][NextLimits]_vars

\* Requests of all the clients, interleaved: each handler runs in a thread of
\* its own.  A statement of the store is one step: the commit of a create,
\* its refresh, the select of a listing, a delete with its commit.
AnyReceiveList == \E c \in Clients : ReceiveList(c)
AnyReceiveDelete == \E c \in Clients : \E id \in ConcurrentDeleteIds : ReceiveDelete(c, id)
AnyReceiveCreate ==
    \E c \in Clients : \E body \in ConcurrentBodies :
        created + InFlightCreates < MaxConcurrentCreates /\ ReceiveCreate(c, body)
AnyDelay == \E c \in Clients : add_delay(c)
AnyList == \E c \in Clients : get_all_polygons(c, FALSE)
AnyCreate == \E c \in Clients : create_polygon(c, FALSE)
AnyRefresh == \E c \in Clients : refresh(c, FALSE)
AnyDelete == \E c \in Clients : delete_polygon(c, FALSE)
AnyClose == \E c \in Clients : close(c)

NextConcurrent ==
    \/ AnyReceiveList
    \/ AnyReceiveDelete
    \/ AnyReceiveCreate
    \/ AnyDelay
    \/ AnyList
    \/ AnyCreate
    \/ AnyRefresh
    \/ AnyDelete
    \/ AnyClose

SpecConcurrent == Init /\ [][NextConcurrent]_vars

\* The requests of all the clients, interleaved, with a store that can fail.
AnyListOrFail == \E c \in Clients : \E fault \in BOOLEAN : get_all_polygons(c, fault)
AnyCreateOrFail == \E c \in Clients : \E fault \in BOOLEAN : create_polygon(c, fault)
AnyRefreshOrFail == \E c \in Clients : \E fault \in BOOLEAN : refresh(c, fault)
AnyDeleteOrFail == \E c \in Clients : \E fault \in BOOLEAN : delete_polygon(c, fault)

SessionBodies ==
    { Body(StrVal(nA), ListVal(pTri)),
      Body(StrVal(nA), ListVal(pOver)),
      Body(StrVal(nBlank), ListVal(pTri)) }

AnyReceiveCreateFew ==
    \E c \in Clients : \E body \in SessionBodies :
        created + InFlightCreates < MaxConcurrentCreates /\ ReceiveCreate(c, body)

\* Deletes of the ids the creates can have been given.
AnyReceiveDeleteFew ==
    \E c \in Clients : \E id \in 1..MaxConcurrentCreates : ReceiveDelete(c, id)

NextSessions ==
    \/ AnyReceiveList
    \/ AnyReceiveDeleteFew
    \/ AnyReceiveCreateFew
    \/ AnyDelay
    \/ AnyListOrFail
    \/ AnyCreateOrFail
    \/ AnyRefreshOrFail
    \/ AnyDeleteOrFail
    \/ AnyClose

SpecSessions == Init /\ [][NextSessions]_vars

\* PolygonService.create_polygon called directly, on an empty table, under the
\* default settings and under settings changed through the environment.
FewPoints == 4

SettingsChoices ==
    { Defaults,
      Settings(max_coordinate, max_name_length, FewPoints, 2),
      Settings(max_coordinate, max_name_length, FewPoints, 4) }

pFive == << pOrigin, pUnit, pOrigin, pUnit, pOrigin >>
pFiveBad == << pOrigin, <<NaN, Int_(0)>>, pOrigin, pUnit, <<Int_(1)>> >>
pSeveral == << pOrigin, <<Int_(0), NumStr(15)>>, <<Null, NaN>>, <<Int_(1)>> >>
pCoords == << pOrigin, pUnit, <<Float_(Tenths(max_coordinate) + 1), Inf>> >>
pLate == << pUnit, <<Int_(0), Int_(max_coordinate + 1)>>, <<NaN, Int_(0)>> >>

CallNames ==
    { StrVal(nA), StrVal(nPad), StrVal(nMax), StrVal(nLong),
      StrVal(nBlank), StrVal(nEmpty), StrVal(nTab), StrVal(nTabbed), NoneStr }

CallPoints ==
    { ListVal(pTri), ListVal(pEdge), ListVal(pNumStr), ListVal(pOver),
      ListVal(pUnder), ListVal(pTwo), ListVal(pTwoOver), ListVal(pEmpty),
      ListVal(pArity1), ListVal(pArity3), ListVal(pNull), ListVal(pStr),
      ListVal(pNaN), ListVal(pInf), ListVal(pFive), ListVal(pFiveBad),
      ListVal(pSeveral), ListVal(pCoords), ListVal(pLate), ListVal(pNaNStr),
      NoneList }

LargeCalls ==
    { <<StrVal(nA), ListVal(pManyOver)>>, <<StrVal(nLong), ListVal(pMany)>> }

Calls == (CallNames \X CallPoints) \cup LargeCalls

DoCall ==
    \E c \in Serial : \E call \in Calls :
        store = {} /\ CallCreate(c, call[1], call[2])

NextService ==
    \/ DoCall
    \/ DoDelay
    \/ DoCreate
    \/ DoRefresh
    \/ DoClose

InitService == Started /\ settings \in SettingsChoices

SpecService == InitService /\ [][NextService]_vars

\* The same requests with a store that can fail, and a table whose rows can
\* be rewritten from outside the application.
CorruptTexts ==
    {BlankText, GarbageText, ObjectText, FlatText, TripleText, WordsText,
     NaNText}

\* The points column of a stored row is overwritten.
Corrupt(id, text) ==
    /\ id \in Ids(store)
    /\ store' = {IF r.id = id THEN [r EXCEPT !.points = text] ELSE r : r \in store}
    /\ listings' = NoListings
    /\ UNCHANGED <<created, pc, req, resp, answer, steps, removed, gone,
                   issued, polygon, settings, session, overlap, rival>>

DoCorrupt == \E id \in DeleteIds : \E text \in CorruptTexts : Corrupt(id, text)
DoReceiveCreateFew ==
    \E c \in Serial : \E body \in ConcurrentBodies :
        created + InFlightCreates < MaxFaultCreates /\ ReceiveCreate(c, body)
DoListOrFail == \E c \in Serial : \E fault \in BOOLEAN : get_all_polygons(c, fault)
DoCreateOrFail == \E c \in Serial : \E fault \in BOOLEAN : create_polygon(c, fault)
DoRefreshOrFail == \E c \in Serial : \E fault \in BOOLEAN : refresh(c, fault)
DoDeleteOrFail == \E c \in Serial : \E fault \in BOOLEAN : delete_polygon(c, fault)

NextFaults ==
    \/ DoReceiveList
    \/ DoReceiveDelete
    \/ DoReceiveCreateFew
    \/ DoDelay
    \/ DoListOrFail
    \/ DoCreateOrFail
    \/ DoRefreshOrFail
    \/ DoDeleteOrFail
    \/ DoClose
    \/ DoCorrupt

SpecFaults == Init /\ [][NextFaults]_vars

-----------------------------------------------------------------------------
(* Properties.                                                             *)

Done(c, op) == pc[c] = "done" /\ req[c].op = op

Range(f) == {f[i] : i \in DOMAIN f}

RowOf(id) == CHOOSE r \in store : r.id = id

\* Two lists of points with the same nesting and, place by place, the same
\* numeric value; the first holds JSON numbers.
SameValues(a, b) ==
    /\ Len(a) = Len(b)
    /\ \A i \in 1..Len(a) :
          /\ Len(a[i]) = Len(b[i])
          /\ \A j \in 1..Len(a[i]) : IsFinite(a[i][j]) /\ a[i][j].v = b[i][j].v

\* Between 3 and max_points_count points, each a pair of finite coordinates
\* of absolute value at most max_coordinate.
GoodPoints(points) ==
    /\ points.k = "list"
    /\ Len(points.l) >= 3
    /\ Len(points.l) <= max_points_count
    /\ \A i \in 1..Len(points.l) :
          /\ Len(points.l[i]) = 2
          /\ \A j \in 1..2 :
                /\ IsFinite(points.l[i][j])
                /\ Abs(points.l[i][j].v) <= Tenths(max_coordinate)

NonBlank(name) == name.k = "str" /\ \E i \in 1..Len(name.s) : ~IsSpace(name.s[i])

\* 201 with a positive id and the submitted name and points.
Echoed(c) ==
    /\ resp[c].status = 201
    /\ Len(resp[c].polys) = 1
    /\ resp[c].polys[1].id >= 1
    /\ resp[c].polys[1].name = req[c].body.name.s
    /\ SameValues(resp[c].polys[1].points, req[c].body.points.l)

\* C1 as stated: every body whose name is non-blank with 1 to 255 characters
\* after trimming, and whose points are good, is created and echoed.
C1_CreateValidTrimmed ==
    \A c \in Clients :
        ( /\ Done(c, "create")
          /\ NonBlank(req[c].body.name)
          /\ Len(strip(req[c].body.name.s)) <= 255
          /\ GoodPoints(req[c].body.points) )
        => Echoed(c)

\* C1 amended: every body whose name is non-blank and, untrimmed, 1 to 255
\* characters long, and whose points are good, is created (201) with a
\* positive id and the name and points returned as submitted, in order.
C1_CreateValid ==
    \A c \in Clients :
        ( /\ Done(c, "create")
          /\ NonBlank(req[c].body.name)
          /\ Len(req[c].body.name.s) <= 255
          /\ GoodPoints(req[c].body.points) )
        => Echoed(c)

\* A create of max_points_count points has been answered 201.
C1_Witness ==
    \E c \in Clients :
        /\ Done(c, "create")
        /\ resp[c].status = 201
        /\ Len(req[c].body.points.l) = max_points_count

\* C2: every stored polygon has a positive id, a name that is non-empty after
\* trimming and at most 255 characters long, and at least 3 points, each a
\* pair of finite coordinates of absolute value at most max_coordinate.
C2_StoredPolygonsValid ==
    \A r \in store :
        LET p == Polygon(r)
        IN  /\ p.id >= 1
            /\ Len(strip(p.name)) >= 1
            /\ Len(p.name) <= 255
            /\ p.points.k = "list"
            /\ Len(p.points.l) >= 3
            /\ \A i \in 1..Len(p.points.l) :
                  /\ Len(p.points.l[i]) = 2
                  /\ \A j \in 1..2 :
                        /\ IsFinite(p.points.l[i][j])
                        /\ Abs(p.points.l[i][j].v) <= Tenths(max_coordinate)

\* A polygon with a coordinate on the bound is stored, a delete has removed
\* another, and a create has just been refused.
C2_Witness ==
    /\ \E r \in store : \E i \in 1..Len(r.sent) :
           Abs(r.sent[i][1].v) = Tenths(max_coordinate)
    /\ removed # {}
    /\ \E c \in Clients : Done(c, "create") /\ resp[c].status \in {400, 422}

DeleteStep(c) == pc[c] = "service" /\ req[c].op = "delete" /\ pc'[c] = "closing"

ListStep(c) == pc[c] = "service" /\ req[c].op = "list" /\ pc'[c] = "closing"

\* The step that decides the answer of a create: the service refuses it or
\* the commit fails, or the saved entity has been refreshed.
CreateStep(c) ==
    pc[c] \in {"service", "refresh"} /\ req[c].op = "create" /\ pc'[c] = "closing"

\* The step of a create in the service: it is refused, or saved.
SaveStep(c) == pc[c] = "service" /\ req[c].op = "create" /\ pc'[c] # "service"

\* The step that refreshes the entity a create has saved, and answers.
RefreshStep(c) == pc[c] = "refresh" /\ pc'[c] = "closing"

C3_DeleteStep ==
    \A c \in Clients :
        /\ DeleteStep(c) =>
              LET id == req[c].id
              IN  /\ id \in Ids(store) =>
                        /\ answer'[c].status = 200
                        /\ id \notin Ids(store')
                        /\ RowOf(id).seq \in removed'
                  /\ id \notin Ids(store) =>
                        /\ answer'[c].status = 404
                        /\ answer'[c].detail.msg = "Polygon not found"
                  /\ id \in gone => answer'[c].status = 404
        /\ ListStep(c) =>
              \A i \in 1..Len(answer'[c].polys) :
                  /\ answer'[c].polys[i].id \in Ids(store)
                  /\ RowOf(answer'[c].polys[i].id).seq \notin removed

\* C3: a delete of a stored id answers 200 and removes the polygon, which is
\* in no later listing and never stored again; a delete of an id that is not
\* stored, and so a second delete of the same id with no create in between,
\* answers 404 'Polygon not found'.
C3_Delete ==
    /\ [](\A r \in store : r.seq \notin removed)
    /\ [][C3_DeleteStep]_vars

\* A second delete of the same id, with no create in between, answered 404.
C3_Witness ==
    \E c \in Clients :
        /\ Done(c, "delete")
        /\ resp[c].status = 404
        /\ req[c].id \in gone

\* C4: a listing with no write since holds exactly the stored polygons, one
\* entry each, a polygon inserted earlier before one inserted later.
C4_ListingInInsertionOrder ==
    listings.valid =>
        LET L == listings.latest
        IN  /\ Len(L) = Cardinality(store)
            /\ {L[i].id : i \in 1..Len(L)} = Ids(store)
            /\ \A i \in 1..Len(L) : L[i].name = RowOf(L[i].id).name
            /\ \A i, j \in 1..Len(L) :
                  i < j => RowOf(L[i].id).seq < RowOf(L[j].id).seq

\* A listing of two polygons made after a delete, the first id not being 1.
C4_Witness ==
    /\ listings.valid
    /\ Len(listings.latest) >= 2
    /\ listings.latest[1].id > 1
    /\ removed # {}

\* C5: the points returned by a create, and the points of every polygon in a
\* listing, are the submitted points: same nesting, order and values.
C5_PointsRoundTrip ==
    /\ \A c \in Clients :
          (Done(c, "create") /\ resp[c].status = 201)
          => SameValues(resp[c].polys[1].points, req[c].body.points.l)
    /\ listings.valid =>
          \A i \in 1..Len(listings.latest) :
              /\ listings.latest[i].id \in Ids(store)
              /\ SameValues(listings.latest[i].points,
                            RowOf(listings.latest[i].id).sent)

\* A listing holds a polygon whose first and third points are the same point,
\* with a fractional coordinate, and whose second point is smaller.
C5_Witness ==
    /\ listings.valid
    /\ \E i \in 1..Len(listings.latest) :
          LET p == listings.latest[i].points
          IN  /\ p[1] = p[3]
              /\ p[1][1].v % 10 # 0
              /\ p[2][1].v < p[1][1].v

\* A body that is valid but for a finite coordinate beyond max_coordinate.
TooLargeOnly(body) ==
    /\ NonBlank(body.name)
    /\ Len(body.name.s) <= 255
    /\ body.points.k = "list"
    /\ Len(body.points.l) >= 3
    /\ Len(body.points.l) <= max_points_count
    /\ \A i \in 1..Len(body.points.l) :
          /\ Len(body.points.l[i]) = 2
          /\ \A j \in 1..2 : IsFinite(body.points.l[i][j])
    /\ \E i \in 1..Len(body.points.l) : \E j \in 1..2 :
          Abs(body.points.l[i][j].v) > Tenths(max_coordinate)

C6_Answer ==
    \A c \in Clients :
        (Done(c, "create") /\ TooLargeOnly(req[c].body)) =>
            /\ resp[c].status = 400
            /\ resp[c].detail.msg = "Coordinate value too large. Maximum allowed: "
            /\ resp[c].detail.arg = max_coordinate
            /\ "save" \notin Range(steps[c])

C6_Step ==
    \A c \in Clients :
        (CreateStep(c) /\ TooLargeOnly(req[c].body)) =>
            /\ store' = store
            /\ created' = created

\* C6: a body that is valid but for a coordinate of absolute value above
\* max_coordinate is answered 400, the detail being the 'too large' message
\* with the configured maximum, and the store is left as it was.
C6_CoordinateTooLarge == []C6_Answer /\ [][C6_Step]_vars

\* Such a body, the coordinate negative, has been answered 400 while
\* polygons are stored.
C6_Witness ==
    \E c \in Clients :
        /\ Done(c, "create")
        /\ TooLargeOnly(req[c].body)
        /\ \E i \in 1..Len(req[c].body.points.l) : req[c].body.points.l[i][2].v < 0
        /\ resp[c].status = 400
        /\ store # {}

\* A body that breaks a shape rule.
ShapeBroken(body) ==
    \/ body.name.k = "missing"
    \/ body.points.k = "missing"
    \/ ~NonBlank(body.name)
    \/ Len(body.name.s) > 255
    \/ Len(body.points.l) < 3
    \/ \E i \in 1..Len(body.points.l) : Len(body.points.l[i]) # 2
    \/ \E i \in 1..Len(body.points.l) : \E j \in 1..Len(body.points.l[i]) :
          body.points.l[i][j].k \in {"null", "str"}

C7_Answer ==
    \A c \in Clients :
        (Done(c, "create") /\ ShapeBroken(req[c].body)) =>
            /\ resp[c].status = 422
            /\ steps[c] = <<"schema">>

C7_Step ==
    \A c \in Clients :
        (Ready(c) /\ pc'[c] = "closing" /\ req'[c].op = "create") =>
            /\ store' = store
            /\ created' = created

\* C7 as stated: a body that breaks a shape rule is answered 422 whatever
\* else is wrong with it, by the schema alone: no delay, no service, no store
\* access.
C7_ShapeErrors == []C7_Answer /\ [][C7_Step]_vars

BlankOrLong(name) ==
    name.k = "str" /\ (Len(strip(name.s)) = 0 \/ Len(name.s) > 255)

\* C8 as stated: a name that is blank after trimming, or longer than 255
\* characters, is answered 400.
C8_NameAnswered400 ==
    \A c \in Clients :
        (Done(c, "create") /\ BlankOrLong(req[c].body.name)) => resp[c].status = 400

\* C8 amended: a name that is blank after trimming, or longer than 255
\* characters, is rejected by the schema and never answered 400: the answer
\* is 422, or 500 when the points of the body hold a NaN or an infinity that
\* the 422 answer cannot be written with.
C8_NameAnswered422 ==
    \A c \in Clients :
        (Done(c, "create") /\ BlankOrLong(req[c].body.name)) =>
            /\ steps[c] = <<"schema">>
            /\ \/ resp[c].status = 422
               \/ /\ resp[c] = InternalServerError
                  /\ req[c].body.points.k = "list"
                  /\ ~Renders(req[c].body.points.l)
            /\ ( req[c].body.points.k = "list" /\ Renders(req[c].body.points.l) ) =>
                  resp[c].status = 422

\* A name of 256 characters has been answered 422.
C8_Witness ==
    \E c \in Clients :
        /\ Done(c, "create")
        /\ Len(req[c].body.name.s) = 256
        /\ resp[c].status = 422

C9_Same ==
    listings.valid =>
        /\ listings.first = listings.latest
        /\ listings.latest = ListBody(PolygonRepository_find_all(store)).items

C9_Step ==
    \A c \in Clients : ListStep(c) => (store' = store /\ created' = created)

\* C9: the listings made with no write between them are the same, entry for
\* entry, and a listing leaves the store as it was.
C9_ListingIdempotent == []C9_Same /\ [][C9_Step]_vars

\* Two listings in a row of a store of two polygons.
C9_Witness ==
    /\ listings.valid
    /\ listings.again
    /\ Len(listings.latest) >= 2
    /\ \E c \in Clients :
          /\ Done(c, "list")
          /\ resp[c].polys = listings.latest
          /\ listings.first = resp[c].polys
    /\ \E c \in Clients : Done(c, "list") /\ steps[c] = <<"delay", "find_all">>

C10_Unique == \A r1, r2 \in store : r1.id = r2.id => r1 = r2

C10_Step ==
    /\ \A r \in store : r \in store' \/ r.id \notin Ids(store')
    /\ \A r \in store' \ store :
          \E c \in Clients : SaveStep(c) /\ pc'[c] = "refresh"
                             /\ polygon'[c] = r.id
                             /\ r.name = req[c].body.name.s
    /\ \A r \in store \ store' :
          \E c \in Clients : DeleteStep(c) /\ req[c].id = r.id

\* C10: no two stored polygons share an id; a step leaves every stored row
\* as it is or removes it, only a create adds a row and only a delete of its
\* id removes one.
C10_IdsUniqueRowsFrozen == []C10_Unique /\ [][C10_Step]_vars

\* Two polygons are stored, the id of one having been used before.
C10_Witness ==
    /\ Cardinality(store) >= 2
    /\ \E r \in store : r.id < r.seq

ValidBody(body) ==
    /\ NonBlank(body.name)
    /\ Len(body.name.s) <= 255
    /\ GoodPoints(body.points)

C11_Step ==
    \A c \in Clients :
        /\ (SaveStep(c) /\ ValidBody(req[c].body)) =>
              /\ pc'[c] = "refresh"
              /\ polygon'[c] \notin Ids(store)
              /\ Cardinality(store') = Cardinality(store) + 1
              /\ \E r \in store' :
                    /\ store' = store \cup {r}
                    /\ r.id = polygon'[c]
                    /\ r.name = req[c].body.name.s
        /\ (RefreshStep(c) /\ removed = {}) =>
              /\ answer'[c].status = 201
              /\ answer'[c].polys[1].id = polygon[c]
              /\ answer'[c].polys[1].name = req[c].body.name.s
              /\ SameValues(answer'[c].polys[1].points, req[c].body.points.l)
              /\ store' = store

C11_Rows ==
    /\ Cardinality(store) + Cardinality(removed) = created
    /\ removed = {} =>
          /\ \A c \in Clients :
                (Done(c, "create") /\ ValidBody(req[c].body)) =>
                    /\ resp[c].status = 201
                    /\ resp[c].polys[1].id \in Ids(store)
          /\ \A c1, c2 \in Clients :
                ( /\ c1 # c2
                  /\ overlap[c1] /\ Done(c1, "create") /\ resp[c1].status = 201
                  /\ overlap[c2] /\ Done(c2, "create") /\ resp[c2].status = 201 )
                => resp[c1].polys[1].id # resp[c2].polys[1].id

\* C11: concurrent valid creates never conflict.  Each adds exactly one row,
\* under an id no stored row has; and while no delete has removed a row, each
\* is answered 201 with that id and its own name and points, two creates that
\* ran at the same time end with different ids, and the store holds one row
\* for each.
C11_ConcurrentCreates == []C11_Rows /\ [][C11_Step]_vars

\* Two creates with the same name ran at the same time and both succeeded,
\* the one that arrived first being saved last.
C11_Witness ==
    \E c1, c2 \in Clients :
        /\ c1 # c2
        /\ overlap[c1] /\ Done(c1, "create") /\ resp[c1].status = 201
        /\ overlap[c2] /\ Done(c2, "create") /\ resp[c2].status = 201
        /\ resp[c1].polys[1].name = resp[c2].polys[1].name
        /\ session[c1].id < session[c2].id
        /\ removed = {}
        /\ Cardinality(store) = 2
        /\ resp[c1].polys[1].id > resp[c2].polys[1].id

GenericDetail(op) ==
    CASE op = "list" -> "Failed to fetch polygons"
      [] op = "create" -> "Failed to create polygon"
      [] op = "delete" -> "Failed to delete polygon"
      [] OTHER -> ""

\* C12 as stated: a request that ends in neither success, a validation error
\* nor not-found is answered 500 with the generic detail of its operation,
\* which is never the text of the exception.
C12_GenericFailure ==
    \A c \in Clients :
        (pc[c] = "done" /\ resp[c].status \notin {200, 201, 400, 404, 422}) =>
            /\ resp[c].status = 500
            /\ resp[c].detail.msg = GenericDetail(req[c].op)
            /\ resp[c].detail # StoreError

C13_Count == \A id \in DeleteIds : DeletedCount(store, id) \in {0, 1}

C13_Step ==
    \A c \in Clients :
        DeleteStep(c) =>
            LET id == req[c].id
                n == Cardinality(store) - Cardinality(store')
            IN  /\ n \in {0, 1}
                /\ store' \subseteq store
                /\ (answer'[c].status = 200) <=> (n = 1)
                /\ (n = 1) <=> (id \in Ids(store))
                /\ \A r \in store : r.id # id => r \in store'
                /\ id \notin Ids(store) => store' = store
                /\ answer'[c].status \in {200, 404}

\* C13: a delete succeeds exactly when one row was removed, which is exactly
\* when the id was stored; delete_by_id removes 0 or 1 rows, never a row of
\* another id, and nothing when the id is not stored.
C13_DeleteCount == []C13_Count /\ [][C13_Step]_vars

\* A delete removed one of several rows, and a later delete of an id that
\* is not stored was answered 404 with the rest still stored.
C13_Witness ==
    \E c \in Clients :
        /\ Done(c, "delete")
        /\ resp[c].status = 404
        /\ removed # {}
        /\ Cardinality(store) >= 2

\* What is wrong with one coordinate, by its kind and size.
CoordinateFault(c) ==
    CASE c.k = "null" -> "Coordinate cannot be null"
      [] c.k \in {"str", "numstr", "nanstr", "infstr", "ninfstr"} ->
             "Coordinate must be a number"
      [] c.k = "nan" -> "Coordinate cannot be NaN"
      [] c.k \in {"inf", "ninf"} -> "Coordinate cannot be Infinite"
      [] OTHER -> IF c.v > Tenths(settings.max_coordinate)
                     \/ c.v < -Tenths(settings.max_coordinate)
                  THEN "Coordinate value too large. Maximum allowed: "
                  ELSE ""

\* What is wrong with one point: its arity, else its x, else its y.
PointFault(point) ==
    IF Len(point) # 2 THEN "Each point must have exactly 2 coordinates [x, y]"
    ELSE IF CoordinateFault(point[1]) # "" THEN CoordinateFault(point[1])
    ELSE CoordinateFault(point[2])

FirstFaultyPoint(l) ==
    IF \E i \in 1..Len(l) : PointFault(l[i]) # ""
    THEN PointFault(l[CHOOSE i \in 1..Len(l) :
                          /\ PointFault(l[i]) # ""
                          /\ \A h \in 1..(i - 1) : PointFault(l[h]) = ""])
    ELSE ""

NameBlank(name) == name.k # "str" \/ \A i \in 1..Len(name.s) : IsSpace(name.s[i])
NameLong(name) == Len(name.s) > settings.max_name_length
PointsMissing(points) == points.k # "list" \/ Len(points.l) = 0

DirectCall(c) == Done(c, "create") /\ steps[c][1] = "call"

C14_Order ==
    \A c \in Clients :
        DirectCall(c) =>
            LET name == req[c].body.name
                points == req[c].body.points
                msg == resp[c].detail.msg
            IN  /\ NameBlank(name) => msg = "Polygon name is required"
                /\ (~NameBlank(name) /\ NameLong(name)) =>
                       msg = "Polygon name too long. Maximum allowed: "
                /\ (~NameBlank(name) /\ ~NameLong(name)) =>
                       /\ PointsMissing(points) => msg = "Polygon points are required"
                       /\ (~PointsMissing(points) /\ Len(points.l) < 3) =>
                              msg = "Polygon must have at least 3 points"
                       /\ Len(points.l) > settings.max_points_count =>
                              msg = "Too many points. Maximum allowed: "
                       /\ ( /\ Len(points.l) >= 3
                            /\ Len(points.l) <= settings.max_points_count ) =>
                              msg = FirstFaultyPoint(points.l)
                /\ (msg = "") <=> (resp[c].status = 201)
                /\ (msg # "") <=> (resp[c].status = 400 /\ store = {})

\* C14: the service's create reports one error, the first failure in the
\* order: name blank, name too long, points missing, fewer than three
\* points, too many points, then the earliest faulty point (its arity, else
\* its first faulty coordinate: null, not a number, NaN, infinite, too large).
C14_FirstFailure == C14_Order

\* A call whose name is fine and whose second point is the first of several
\* faulty points was answered with the error of that point's y coordinate,
\* although a later point has a null coordinate and a wrong arity.
C14_Witness ==
    \E c \in Clients :
        /\ DirectCall(c)
        /\ req[c].body.points = ListVal(pSeveral)
        /\ resp[c].status = 400
        /\ resp[c].detail.msg = "Coordinate must be a number"

AllPointsFine(l) == \A i \in 1..Len(l) : PointFault(l[i]) = ""

TooFewMessages == {"Polygon points are required", "Polygon must have at least 3 points"}

\* C15 as stated: with a good name, a list of fewer points than the configured
\* minimum is rejected as too few and a list of fine points between the
\* configured minimum and maximum is not rejected; a list of more points
\* than the configured maximum is rejected as too many.
C15_ConfiguredBounds ==
    \A c \in Clients :
        ( /\ DirectCall(c)
          /\ ~NameBlank(req[c].body.name) /\ ~NameLong(req[c].body.name)
          /\ req[c].body.points.k = "list" ) =>
            LET l == req[c].body.points.l
                msg == resp[c].detail.msg
            IN  /\ Len(l) < settings.min_points_count => msg \in TooFewMessages
                /\ ( /\ Len(l) >= settings.min_points_count
                     /\ Len(l) <= settings.max_points_count
                     /\ AllPointsFine(l) ) => resp[c].status = 201
                /\ ( /\ Len(l) >= settings.min_points_count
                     /\ Len(l) > settings.max_points_count ) =>
                       msg = "Too many points. Maximum allowed: "

C16_Step ==
    \A c \in Clients :
        (ListStep(c) /\ answer'[c].detail.msg # "Failed to fetch polygons") =>
            /\ answer'[c].status = 200
            /\ \A r \in store :
                  r.points \in CorruptTexts =>
                      \E i \in 1..Len(answer'[c].polys) :
                          /\ answer'[c].polys[i].id = r.id
                          /\ answer'[c].polys[i].points = <<>>

\* C16 as stated: whatever text the points column of a stored row holds, a
\* listing the store serves is answered 200 and reports that polygon with
\* an empty points sequence.
C16_CorruptedRowListed == [][C16_Step]_vars

\* A text json.loads cannot parse: not JSON at all, or empty or blank.
MalformedJson(text) == text.t \in {"garbage", "blank"}

NotAList(text) == text.t = "json" /\ text.jt \notin {"array", "flat"}

\* C17 as stated: the decoder gives the empty list for every stored text
\* that is malformed JSON or decodes to something that is not a list, and
\* the list itself, element for element, for every text that decodes to one.
C17_DecodeNeverFails ==
    \A r \in store :
        LET text == r.points
            data == process_result_value(text)
        IN  /\ (MalformedJson(text) \/ NotAList(text)) => data = ListVal(<<>>)
            /\ (text.t = "json" /\ text.jt \in {"array", "flat"}) =>
                  /\ data.k \in {"list", "scalars"}
                  /\ Len(data.l) = Len(text.items)
                  /\ text \notin CorruptTexts => SameValues(data.l, r.sent)

C18_Scoped ==
    /\ \A c \in Clients :
          /\ pc[c] = "idle" => session[c] = NoSession
          /\ InFlight(c) => (session[c].open /\ session[c].closes = 0)
          /\ pc[c] = "done" => (~session[c].open /\ session[c].closes = 1)
    /\ \A c1, c2 \in Clients :
          (c1 # c2 /\ session[c1].open /\ session[c2].open)
          => session[c1].id # session[c2].id

C18_Step ==
    \A c \in Clients :
        /\ (Ready(c) /\ ~Ready(c)') =>
              /\ session'[c].open
              /\ \A d \in Clients \ {c} : session[d].open => session'[c].id # session[d].id
        /\ (InFlight(c) /\ InFlight(c)') => session'[c] = session[c]
        /\ (InFlight(c) /\ pc'[c] = "done") =>
              session'[c] = [session[c] EXCEPT !.open = FALSE, !.closes = 1]

\* C18: a request has a session of its own from its arrival to its end, open
\* while it is handled and closed exactly once when it ends, whatever the
\* status; two requests handled at the same time never have the same one.
C18_SessionPerRequest == []C18_Scoped /\ [][C18_Step]_vars

\* A request ended in the 500 of a failed store, its session closed once,
\* while another request that ran beside it is still handled on a session
\* of its own.
C18_Witness ==
    \E c1, c2 \in Clients :
        /\ c1 # c2
        /\ pc[c1] = "done" /\ resp[c1].status = 500
        /\ session[c1].closes = 1 /\ ~session[c1].open
        /\ overlap[c1]
        /\ InFlight(c2) /\ session[c2].open /\ session[c2].id = 2

\* The place of a step in the steps of a request, 0 when it was not taken.
At(c, step) ==
    IF step \in Range(steps[c])
    THEN Min({i \in 1..Len(steps[c]) : steps[c][i] = step})
    ELSE 0

StoreSteps == {"find_all", "save", "delete_by_id"}

C19_Order ==
    \A c \in Clients :
        /\ \A step \in StoreSteps \cup {"validate"} :
              At(c, step) > 0 => (At(c, "delay") > 0 /\ At(c, "delay") < At(c, step))
        /\ At(c, "save") > 0 => (At(c, "validate") > 0 /\ At(c, "validate") < At(c, "save"))
        /\ (Done(c, "create") /\ resp[c].status = 400) =>
              steps[c] = <<"schema", "delay", "validate">>
        /\ (pc[c] = "done" /\ resp[c].status \in {200, 201, 404}) => At(c, "delay") > 0

C19_Step ==
    store' # store =>
        \E c \in Clients :
            /\ pc[c] = "service" /\ pc'[c] # "service"
            /\ At(c, "delay") > 0
            /\ req[c].op = "create" =>
                  steps'[c] = <<"schema", "delay", "validate", "save">>

\* C19: in list, create and delete the delay comes first, before the
\* validation and before any store access; a create rejected by the service
\* has been delayed, and the store is written only by a request that has
\* been delayed and, for a create, validated.
C19_DelayFirst == []C19_Order /\ [][C19_Step]_vars

\* A create that reached the service was delayed and then rejected by the
\* validation, after an earlier create was delayed, validated and saved.
C19_Witness ==
    \E c \in Clients :
        /\ Done(c, "create")
        /\ resp[c].status = 400
        /\ steps[c] = <<"schema", "delay", "validate">>
        /\ store # {}

\* The step in which the create of client c comes to its answer, by the
\* schema or by the handler.
CreateAnswered(c) ==
    /\ pc[c] # "closing"
    /\ pc'[c] = "closing"
    /\ req'[c].op = "create"

C20_Step ==
    \A c \in Clients :
        /\ (CreateAnswered(c) /\ answer'[c].status \in {400, 422}) =>
              /\ store' = store
              /\ created' = created
              /\ NextId(store') = NextId(store)
        /\ (SaveStep(c) /\ pc'[c] = "refresh") =>
              /\ polygon'[c] = NextId(store)
              /\ store' # store

\* C20: a create answered 422 or 400 leaves every row as it was, adds and
\* removes none, and leaves the id of the next successful create what it
\* was: that id depends on the stored rows alone.
C20_RejectedCreateNoEffect == [][C20_Step]_vars

\* A create was rejected by the service with one polygon stored: the next
\* create will still take id 2.
C20_Witness ==
    \E c \in Clients :
        /\ Done(c, "create")
        /\ resp[c].status = 400
        /\ Ids(store) = {1}
        /\ NextId(store) = 2
        /\ created = 1

\* C21 as stated: of two deletes of the same stored id that run at the same
\* time, never both report success: once one of them has been answered 200,
\* the other is answered 404 and removes nothing.
C21_Step ==
    \A c \in Clients :
        (DeleteStep(c) /\ rival[c]) =>
            /\ answer'[c].status = HTTP_404_NOT_FOUND
            /\ store' = store

C21_ConcurrentDeletes == [][C21_Step]_vars

-----------------------------------------------------------------------------

\* The id a create has been answered with.
ReturnedId(r) == r.polys[1].id

\* C22: an id is never reused: the id a successful create returns differs
\* from the id every earlier successful create returned, the creates whose
\* polygon has been deleted since included.
C22_IdNeverReused ==
    [][\A c \in Clients :
          (CreateStep(c) /\ answer'[c].status = HTTP_201_CREATED) =>
              ReturnedId(answer'[c]) \notin issued]_vars

-----------------------------------------------------------------------------

\* The two failures of the service's validation that a body the schema has
\* accepted can still meet, under the default settings.
TooManyPoints == Error("Too many points. Maximum allowed: ", max_points_count)

CoordinateTooLarge ==
    Error("Coordinate value too large. Maximum allowed: ", max_coordinate)

\* The request went through the schema and the handler was called.
Accepted(c) ==
    /\ req[c].op = "create"
    /\ steps[c] # <<>> /\ steps[c][1] = "schema"
    /\ Parsed[req[c].body].ok

\* The service's checks that the schema has made already: the name, the
\* points being there, their count from below, and every point.
PassesSchemaChecks(name, points) ==
    /\ name.k = "str" /\ Len(name.s) > 0 /\ Len(strip(name.s)) > 0
    /\ Len(name.s) <= MAX_NAME_LENGTH
    /\ points.k = "list" /\ Len(points.l) >= 3
    /\ \A i \in 1..Len(points.l) :
          PointError(points.l[i]) \in {NoError, CoordinateTooLarge}

\* C23: under the default settings a body the CreatePolygonRequest schema
\* accepts passes the service's name checks, its points-required and
\* minimum-count checks, its point-arity check and its null, non-number, NaN
\* and infinite coordinate checks; the service's validation fails on it with
\* "too many points" or "coordinate value too large" only, and these are the
\* only 400 answers of POST /api/polygons.
C23_SchemaCoversService ==
    \A c \in Clients :
        Accepted(c) =>
            LET request == Arguments(c)
                err == ServiceValidate(request.name, request.points)
            IN  /\ settings = Defaults
                /\ PassesSchemaChecks(request.name, request.points)
                /\ err \in {NoError, TooManyPoints, CoordinateTooLarge}
                /\ (pc[c] = "done" /\ resp[c].status = HTTP_400_BAD_REQUEST) =>
                       resp[c].detail \in {TooManyPoints, CoordinateTooLarge}

\* A body of more points than allowed went through the schema and was
\* answered 400 by the service.
C23_Witness ==
    \E c \in Clients :
        /\ Accepted(c) /\ pc[c] = "done"
        /\ resp[c].status = HTTP_400_BAD_REQUEST
        /\ resp[c].detail = TooManyPoints
        /\ Len(req[c].body.points.l) = max_points_count + 1

\* A coordinate over the limit went through the schema and was answered 400.
C23_WitnessTooLarge ==
    \E c \in Clients :
        /\ Accepted(c) /\ pc[c] = "done"
        /\ resp[c].status = HTTP_400_BAD_REQUEST
        /\ resp[c].detail = CoordinateTooLarge

====
